---- MODULE Spec2Model ----
(***************************************************************************)
(* Cutroom pipeline manager (src/src/lib/pipeline/manager.ts) and the HTTP *)
(* handlers that call it.  The database is the only shared state; every    *)
(* `await prisma...` is one atomic database step, and a call that makes    *)
(* several of them can be interleaved with the steps of other calls.       *)
(*                                                                         *)
(* A stage row keeps status, agentId (agentName always travels with it),   *)
(* output, artifacts, error, startedAt and completedAt; a timestamp is     *)
(* kept as set or null.  Stage ids are the pairs <<pipelineId, name>>.     *)
(* A prisma update has no condition but its `where: { id }`.  No manager   *)
(* function writes the attributions table.  A call that rewrites a stage   *)
(* remembers in `from` the status it replaced; the code does not read it,  *)
(* only the properties do.                                                 *)
(*                                                                         *)
(* Spec and SpecSeq run the calls of the manager and of the routes against *)
(* one pipeline; SpecLive runs workers that follow the claim/complete      *)
(* protocol, under fairness; SpecReady lists the ready set of several      *)
(* pipelines; SpecTok applies calculateTokenDistribution                   *)
(* (src/src/lib/token/config.ts); SpecMulti creates pipelines and claims   *)
(* stages of several pipelines, one of which holds a stage its agent left; *)
(* SpecRace interleaves two claims on two pipelines; SpecFrame runs the    *)
(* stage operations against two RUNNING pipelines; SpecProgress adds the   *)
(* progress view (src/unnamed/part_009) to the workers of SpecLive.        *)
(***************************************************************************)
EXTENDS Integers, Sequences, FiniteSets, TLC

VARIABLES
    serial,         \* TRUE when the callers issue their calls one at a time
    todo,           \* topics the producers have still to submit
    pipelines,      \* table pipelines: id -> [topic, status, currentStage]
    stages,         \* table stages: <<pipelineId, name>> -> row
    attributions,   \* table attributions: set of rows
    calls,          \* number of calls issued so far
    pc,             \* per worker: the await point its call in flight is at
    arg,            \* per worker: arguments and locals of the call in flight
    result          \* per worker: outcome of its last finished call

vars == <<serial, todo, pipelines, stages, attributions, calls, pc, arg, result>>

\* ------------------------------------------------------------------ bounds
MaxCalls == 5

\* the workers (agents) of a run are those its initial state gives a slot
Workers == DOMAIN pc
\* what a worker posts when it completes a stage: its own output and artifacts
Payload(w) == IF w = "W1" THEN [output |-> "out1", artifacts |-> <<>>]
                          ELSE [output |-> "out2", artifacts |-> <<"file">>]
Errors == {"llm_timeout"}
\* stages the calls of the model are addressed to: the first stage, a stage with
\* a predecessor and a successor, and the terminal stage
Targets == {"RESEARCH", "SCRIPT", "PUBLISH"}

Null == "null"

\* a request body without output
NoOutput == [output |-> Null, artifacts |-> <<>>]

\* ---------------------------------------------------------- stage registry
STAGE_ORDER == <<"RESEARCH", "SCRIPT", "VOICE", "MUSIC", "VISUAL", "EDITOR", "PUBLISH">>

StageNames == {STAGE_ORDER[i] : i \in 1..Len(STAGE_ORDER)}

\* Array.prototype.indexOf on STAGE_ORDER: zero based, -1 when absent
indexOf(name) ==
    IF \E i \in 1..Len(STAGE_ORDER) : STAGE_ORDER[i] = name
    THEN (CHOOSE i \in 1..Len(STAGE_ORDER) : STAGE_ORDER[i] = name) - 1
    ELSE -1

\* STAGE_ORDER[i] with a zero-based index
at(i) == STAGE_ORDER[i + 1]

\* a successor function that starts over after the last stage
getNextStageName_Wraps(current) ==
    LET idx == indexOf(current)
    IN IF idx = -1 THEN Null ELSE at((idx + 1) % Len(STAGE_ORDER))

\* manager.ts 16-20
getNextStageName(current) ==
    LET idx == indexOf(current)
    IN IF idx = -1 \/ idx = Len(STAGE_ORDER) - 1 THEN Null ELSE at(idx + 1)

\* ------------------------------------------------------------------ helpers
PipelineIds == DOMAIN pipelines
StageIds == DOMAIN stages

\* the stage ids the callers of the model address
TargetIds == {sid \in StageIds : sid[2] \in Targets}

\* new Date(): an optional value, <<>> is null; the reading itself is not kept
Now == <<"t">>

Idle == [op |-> "none", target |-> <<>>, outcome |-> "none"]

NewStage == [status |-> "PENDING", agentId |-> Null, output |-> Null,
             artifacts |-> <<>>, error |-> Null,
             startedAt |-> <<>>, completedAt |-> <<>>]

Finish(w, op, target, outcome) ==
    /\ pc' = [pc EXCEPT ![w] = "idle"]
    /\ arg' = [arg EXCEPT ![w] = Idle]
    /\ result' = [result EXCEPT ![w] = [op |-> op, target |-> target, outcome |-> outcome]]

Goto(w, label, locals) ==
    /\ pc' = [pc EXCEPT ![w] = label]
    /\ arg' = [arg EXCEPT ![w] = locals]
    /\ result' = [result EXCEPT ![w] = Idle]

\* a worker may issue a new call when it has none in flight (and, for serial
\* callers, when nobody has)
CanCall(w) ==
    /\ pc[w] = "idle"
    /\ calls < MaxCalls
    /\ serial => \A v \in Workers : pc[v] = "idle"

InitDb ==
    /\ pipelines = <<>>
    /\ stages = <<>>
    /\ attributions = {}
    /\ calls = 0

InitWorkers(ws) ==
    /\ pc = [w \in ws |-> "idle"]
    /\ arg = [w \in ws |-> Idle]
    /\ result = [w \in ws |-> Idle]

\* one topic to submit, two workers whose requests arrive concurrently
Init == InitDb /\ serial = FALSE /\ todo = {"Why cats purr"} /\ InitWorkers({"W1", "W2"})

\* the same, the calls being issued one after the other
InitSeq == InitDb /\ serial = TRUE /\ todo = {"Why cats purr"} /\ InitWorkers({"W1", "W2"})

\* ------------------------------------------------------------ createPipeline
\* a createPipeline whose pipeline is born RUNNING
createPipeline_Started(w, topic) ==
    /\ CanCall(w)
    /\ topic \in todo
    /\ todo' = todo \ {topic}
    /\ calls' = calls + 1
    /\ LET id == Len(pipelines) + 1
       IN /\ pipelines' = Append(pipelines, [topic |-> topic, status |-> "RUNNING",
                                              currentStage |-> "RESEARCH"])
          /\ stages' = [sid \in StageIds \cup {<<id, n>> : n \in StageNames} |->
                            IF sid \in StageIds THEN stages[sid] ELSE NewStage]
          /\ Finish(w, "createPipeline", <<id>>, "ok")
    /\ UNCHANGED <<serial, attributions>>

\* a createPipeline that makes no PUBLISH stage
createPipeline_SixStages(w, topic) ==
    /\ CanCall(w)
    /\ topic \in todo
    /\ todo' = todo \ {topic}
    /\ calls' = calls + 1
    /\ LET id == Len(pipelines) + 1
       IN /\ pipelines' = Append(pipelines, [topic |-> topic, status |-> "DRAFT",
                                              currentStage |-> "RESEARCH"])
          /\ stages' = [sid \in StageIds \cup {<<id, n>> : n \in StageNames \ {"PUBLISH"}} |->
                            IF sid \in StageIds THEN stages[sid] ELSE NewStage]
          /\ Finish(w, "createPipeline", <<id>>, "ok")
    /\ UNCHANGED <<serial, attributions>>

createPipeline(w, topic) ==
    /\ CanCall(w)
    /\ topic \in todo
    /\ todo' = todo \ {topic}
    /\ calls' = calls + 1
    /\ LET id == Len(pipelines) + 1
       IN /\ pipelines' = Append(pipelines, [topic |-> topic, status |-> "DRAFT",
                                              currentStage |-> "RESEARCH"])
          /\ stages' = [sid \in StageIds \cup {<<id, n>> : n \in StageNames} |->
                            IF sid \in StageIds THEN stages[sid] ELSE NewStage]
          /\ Finish(w, "createPipeline", <<id>>, "ok")
    /\ UNCHANGED <<serial, attributions>>

\* ------------------------------------------------------ POST /api/pipelines
\* a create route that forwards whatever topic it is given
createRoute_NoCheck(w, topic) ==
    /\ CanCall(w)
    /\ calls' = calls + 1
    /\ LET id == Len(pipelines) + 1
       IN /\ pipelines' = Append(pipelines, [topic |-> topic, status |-> "DRAFT",
                                              currentStage |-> "RESEARCH"])
          /\ stages' = [sid \in StageIds \cup {<<id, n>> : n \in StageNames} |->
                            IF sid \in StageIds THEN stages[sid] ELSE NewStage]
          /\ Finish(w, "createRoute", <<topic>>, "ok")
    /\ todo' = todo \ {topic}
    /\ UNCHANGED <<serial, attributions>>

\* pipelines/route.ts 27-49: `!topic` is true for a missing topic (Null here) and
\* for the empty string; otherwise createPipeline is the one database step
createRoute(w, topic) ==
    IF topic = Null \/ topic = ""
    THEN /\ CanCall(w)
         /\ calls' = calls + 1
         /\ Finish(w, "createRoute", <<topic>>, "Topic is required")
         /\ UNCHANGED <<serial, todo, pipelines, stages, attributions>>
    ELSE createPipeline(w, topic)

\* ------------------------------------------------------------- startPipeline
startPipeline(w, pipelineId) ==
    /\ CanCall(w)
    /\ calls' = calls + 1
    /\ pipelines' = [pipelines EXCEPT ![pipelineId].status = "RUNNING"]
    /\ Finish(w, "startPipeline", <<pipelineId>>, "ok")
    /\ UNCHANGED <<serial, todo, stages, attributions>>

\* ------------------------------------------- POST /api/pipelines/[id]/start
\* start/route.ts 10-24: getPipeline, then the check of the status read
startRoute(w, pipelineId) ==
    /\ CanCall(w)
    /\ calls' = calls + 1
    /\ IF pipelines[pipelineId].status # "DRAFT"
         THEN Finish(w, "startRoute", <<pipelineId>>, "Pipeline already started")
         ELSE Goto(w, "route_start", [op |-> "startRoute", pipelineId |-> pipelineId])
    /\ UNCHANGED <<serial, todo, pipelines, stages, attributions>>

\* start/route.ts 26: startPipeline, a later database step
startRouteCall(w) ==
    /\ pc[w] = "route_start"
    /\ pipelines' = [pipelines EXCEPT ![arg[w].pipelineId].status = "RUNNING"]
    /\ Finish(w, "startRoute", <<arg[w].pipelineId>>, "ok")
    /\ UNCHANGED <<serial, todo, stages, attributions, calls>>

\* ---------------------------------------------------------------- claimStage
\* the call is issued; its reads and its write follow as separate steps
claimStage(w, pipelineId, stageName) ==
    /\ CanCall(w)
    /\ calls' = calls + 1
    /\ Goto(w, "claim_pipeline", [op |-> "claimStage", pipelineId |-> pipelineId,
                                  stageName |-> stageName])
    /\ UNCHANGED <<serial, todo, pipelines, stages, attributions>>

\* manager.ts 57-63: read the pipeline, reject unless RUNNING
claimReadPipeline(w) ==
    /\ pc[w] = "claim_pipeline"
    /\ LET a == arg[w]
       IN IF a.pipelineId \notin PipelineIds \/ pipelines[a.pipelineId].status # "RUNNING"
          THEN Finish(w, a.op, <<a.pipelineId, a.stageName>>, "Pipeline not in running state")
          ELSE Goto(w, "claim_stage", a)
    /\ UNCHANGED <<serial, todo, pipelines, stages, attributions, calls>>

\* claimReadStage without its status check: any stage found can be claimed
claimReadStage_AnyStatus(w) ==
    /\ pc[w] = "claim_stage"
    /\ IF indexOf(arg[w].stageName) > 0
       THEN Goto(w, "claim_prev", arg[w])
       ELSE Goto(w, "claim_write", arg[w])
    /\ UNCHANGED <<serial, todo, pipelines, stages, attributions, calls>>

\* manager.ts 66-89: read the stage, reject unless found and PENDING
claimReadStage(w) ==
    /\ pc[w] = "claim_stage"
    /\ LET a == arg[w]
           stage == stages[<<a.pipelineId, a.stageName>>]
           stageIdx == indexOf(a.stageName)
       IN IF <<a.pipelineId, a.stageName>> \notin StageIds
          THEN Finish(w, a.op, <<a.pipelineId, a.stageName>>, "Stage not found")
          ELSE IF stage.status # "PENDING"
          THEN Finish(w, a.op, <<a.pipelineId, a.stageName>>, "Stage not available for claiming")
          ELSE IF stageIdx > 0
               THEN Goto(w, "claim_prev", a)
               ELSE Goto(w, "claim_write", a)
    /\ UNCHANGED <<serial, todo, pipelines, stages, attributions, calls>>

\* a claim that does not look at the previous stage
claimReadPrev_NoCheck(w) ==
    /\ pc[w] = "claim_prev"
    /\ Goto(w, "claim_write", arg[w])
    /\ UNCHANGED <<serial, todo, pipelines, stages, attributions, calls>>

\* manager.ts 80-89: read the previous stage, reject unless COMPLETE or SKIPPED
claimReadPrev(w) ==
    /\ pc[w] = "claim_prev"
    /\ LET a == arg[w]
           prevStageName == at(indexOf(a.stageName) - 1)
           prevStage == stages[<<a.pipelineId, prevStageName>>]
       IN IF prevStage.status # "COMPLETE" /\ prevStage.status # "SKIPPED"
          THEN Finish(w, a.op, <<a.pipelineId, a.stageName>>, "Previous stage not complete")
          ELSE Goto(w, "claim_write", a)
    /\ UNCHANGED <<serial, todo, pipelines, stages, attributions, calls>>

\* a claim whose update is keyed by the stage name, in every pipeline
claimWrite_ByName(w) ==
    /\ pc[w] = "claim_write"
    /\ LET a == arg[w]
       IN /\ stages' = [sid \in StageIds |->
                           IF sid[2] = a.stageName
                           THEN [stages[sid] EXCEPT !.status = "CLAIMED", !.agentId = w,
                                                    !.startedAt = Now]
                           ELSE stages[sid]]
          /\ Finish(w, a.op, <<a.pipelineId, a.stageName>>, "ok")
    /\ UNCHANGED <<serial, todo, pipelines, attributions, calls>>

\* manager.ts 91-99: the update, keyed by the stage id alone
claimWrite(w) ==
    /\ pc[w] = "claim_write"
    /\ LET a == arg[w]
           sid == <<a.pipelineId, a.stageName>>
       IN /\ stages' = [stages EXCEPT ![sid] =
                           [@ EXCEPT !.status = "CLAIMED", !.agentId = w, !.startedAt = Now]]
          /\ Finish(w, a.op, sid, "ok")
    /\ UNCHANGED <<serial, todo, pipelines, attributions, calls>>

\* claim route (route.ts 69-115): the body must name the agent; the stage is
\* looked up by id, then claimStage runs with the pipeline and name found
claimRoute(w, stageId, agentId) ==
    /\ CanCall(w)
    /\ calls' = calls + 1
    /\ IF agentId = Null
       THEN Finish(w, "claimRoute", stageId, "agentId and agentName are required")
       ELSE IF stageId \notin StageIds
            THEN Finish(w, "claimRoute", stageId, "Stage not found")
            ELSE Goto(w, "claim_pipeline", [op |-> "claimRoute", pipelineId |-> stageId[1],
                                           stageName |-> stageId[2]])
    /\ UNCHANGED <<serial, todo, pipelines, stages, attributions>>

\* ---------------------------------------------------------------- startStage
\* manager.ts 104-107: the update, whatever the stage's status
startStageUpdate(w, stageId) ==
    /\ stages' = [stages EXCEPT ![stageId].status = "RUNNING"]
    /\ Finish(w, "startStage", stageId, "ok")

startStage(w, stageId) ==
    /\ CanCall(w)
    /\ calls' = calls + 1
    /\ startStageUpdate(w, stageId)
    /\ UNCHANGED <<serial, todo, pipelines, attributions>>

\* ------------------------------------------------------------- completeStage
\* a stage update that writes the output to every stage of the pipeline
completeStageUpdate_WholePipeline(w, stageId, payload, op) ==
    /\ stages' = [sid \in StageIds |->
                     IF sid = stageId
                     THEN [stages[sid] EXCEPT !.status = "COMPLETE", !.output = payload.output,
                                              !.artifacts = payload.artifacts,
                                              !.completedAt = Now]
                     ELSE IF sid[1] = stageId[1]
                          THEN [stages[sid] EXCEPT !.output = payload.output]
                          ELSE stages[sid]]
    /\ Goto(w, "complete_pipeline", [op |-> op, stageId |-> stageId,
                                     from |-> stages[stageId].status])

\* manager.ts 116-125: the stage update
completeStageUpdate(w, stageId, payload, op) ==
    /\ stages' = [stages EXCEPT ![stageId] =
                     [@ EXCEPT !.status = "COMPLETE", !.output = payload.output,
                               !.artifacts = payload.artifacts, !.completedAt = Now]]
    /\ Goto(w, "complete_pipeline", [op |-> op, stageId |-> stageId,
                                     from |-> stages[stageId].status])

completeStage(w, stageId, payload) ==
    /\ CanCall(w)
    /\ calls' = calls + 1
    /\ completeStageUpdate(w, stageId, payload, "completeStage")
    /\ UNCHANGED <<serial, todo, pipelines, attributions>>

\* a completeStage that marks the pipeline COMPLETE whatever the stage
completePipelineUpdate_AnyStage(w) ==
    /\ pc[w] = "complete_pipeline"
    /\ pipelines' = [pipelines EXCEPT ![arg[w].stageId[1]].status = "COMPLETE"]
    /\ Finish(w, arg[w].op, arg[w].stageId, "ok")
    /\ UNCHANGED <<serial, todo, stages, attributions, calls>>

\* manager.ts 127-145: the pipeline update
completePipelineUpdate(w) ==
    /\ pc[w] = "complete_pipeline"
    /\ LET stageId == arg[w].stageId
           nextStageName == getNextStageName(stageId[2])
       IN /\ pipelines' = IF nextStageName = Null
                          THEN [pipelines EXCEPT ![stageId[1]].status = "COMPLETE"]
                          ELSE [pipelines EXCEPT ![stageId[1]].currentStage = nextStageName]
          /\ Finish(w, arg[w].op, stageId, "ok")
    /\ UNCHANGED <<serial, todo, stages, attributions, calls>>

\* complete route (route.ts 5-63): read the stage, check its status, then completeStage
completeRoute(w, stageId, payload) ==
    /\ CanCall(w)
    /\ calls' = calls + 1
    /\ IF payload.output = Null
       THEN Finish(w, "completeRoute", stageId, "output is required")
       ELSE IF stages[stageId].status \notin {"CLAIMED", "RUNNING"}
       THEN Finish(w, "completeRoute", stageId, "Stage cannot be completed")
       ELSE Goto(w, "route_complete", [op |-> "completeRoute", stageId |-> stageId, payload |-> payload])
    /\ UNCHANGED <<serial, todo, pipelines, stages, attributions>>

completeRouteCall(w) ==
    /\ pc[w] = "route_complete"
    /\ completeStageUpdate(w, arg[w].stageId, arg[w].payload, "completeRoute")
    /\ UNCHANGED <<serial, todo, pipelines, attributions, calls>>

\* ------------------------------------------------------------------ failStage
\* manager.ts 150-157: the stage update
failStageUpdate(w, stageId, error) ==
    /\ stages' = [stages EXCEPT ![stageId] =
                     [@ EXCEPT !.status = "FAILED", !.error = error, !.completedAt = Now]]
    /\ Goto(w, "fail_pipeline", [op |-> "failStage", stageId |-> stageId,
                                 from |-> stages[stageId].status])

failStage(w, stageId, error) ==
    /\ CanCall(w)
    /\ calls' = calls + 1
    /\ failStageUpdate(w, stageId, error)
    /\ UNCHANGED <<serial, todo, pipelines, attributions>>

\* a failStage that leaves the pipeline's status alone
failPipelineUpdate_StageOnly(w) ==
    /\ pc[w] = "fail_pipeline"
    /\ pc' = [pc EXCEPT ![w] = "idle"]
    /\ arg' = [arg EXCEPT ![w] = Idle]
    /\ result' = [result EXCEPT ![w] = [op |-> "failStage", target |-> arg[w].stageId,
                                        outcome |-> "ok", from |-> arg[w].from]]
    /\ UNCHANGED <<serial, todo, pipelines, stages, attributions, calls>>

\* a failStage that marks every pipeline FAILED
failPipelineUpdate_AllPipelines(w) ==
    /\ pc[w] = "fail_pipeline"
    /\ pipelines' = [p \in PipelineIds |-> [pipelines[p] EXCEPT !.status = "FAILED"]]
    /\ pc' = [pc EXCEPT ![w] = "idle"]
    /\ arg' = [arg EXCEPT ![w] = Idle]
    /\ result' = [result EXCEPT ![w] = [op |-> "failStage", target |-> arg[w].stageId,
                                        outcome |-> "ok", from |-> arg[w].from]]
    /\ UNCHANGED <<serial, todo, stages, attributions, calls>>

\* manager.ts 159-164: the pipeline update
failPipelineUpdate(w) ==
    /\ pc[w] = "fail_pipeline"
    /\ pipelines' = [pipelines EXCEPT ![arg[w].stageId[1]].status = "FAILED"]
    /\ pc' = [pc EXCEPT ![w] = "idle"]
    /\ arg' = [arg EXCEPT ![w] = Idle]
    /\ result' = [result EXCEPT ![w] = [op |-> "failStage", target |-> arg[w].stageId,
                                        outcome |-> "ok", from |-> arg[w].from]]
    /\ UNCHANGED <<serial, todo, stages, attributions, calls>>

\* one step of some worker, per call and await point
CreatePipeline == \E w \in Workers, topic \in todo : createPipeline(w, topic)
StartPipeline == \E w \in Workers, p \in PipelineIds : startPipeline(w, p)
StartRoute == \E w \in Workers, p \in PipelineIds : startRoute(w, p)
StartRouteCall == \E w \in Workers : startRouteCall(w)
ClaimStage == \E w \in Workers, p \in PipelineIds, n \in Targets : claimStage(w, p, n)
ClaimReadPipeline == \E w \in Workers : claimReadPipeline(w)
ClaimReadStage == \E w \in Workers : claimReadStage(w)
ClaimReadPrev == \E w \in Workers : claimReadPrev(w)
ClaimWrite == \E w \in Workers : claimWrite(w)
StartStage == \E w \in Workers, sid \in TargetIds : startStage(w, sid)
CompleteStage == \E w \in Workers, sid \in TargetIds : completeStage(w, sid, Payload(w))
CompletePipelineUpdate == \E w \in Workers : completePipelineUpdate(w)
CompleteRoute ==
    \E w \in Workers, sid \in TargetIds :
        \E payload \in {Payload(w), NoOutput} : completeRoute(w, sid, payload)
CompleteRouteCall == \E w \in Workers : completeRouteCall(w)
FailStage == \E w \in Workers, sid \in TargetIds, error \in Errors : failStage(w, sid, error)
FailPipelineUpdate == \E w \in Workers : failPipelineUpdate(w)

Next ==
    \/ CreatePipeline
    \/ StartPipeline
    \/ StartRoute
    \/ StartRouteCall
    \/ ClaimStage
    \/ ClaimReadPipeline
    \/ ClaimReadStage
    \/ ClaimReadPrev
    \/ ClaimWrite
    \/ StartStage
    \/ CompleteStage
    \/ CompletePipelineUpdate
    \/ CompleteRoute
    \/ CompleteRouteCall
    \/ FailStage
    \/ FailPipelineUpdate

Spec == Init /\ [][Next]_vars

SpecSeq == InitSeq /\ [][Next]_vars

\* -------------------------------------------------------------- ready set
\* include: { stages: { orderBy: { createdAt: 'asc' } } }: the stage rows of a
\* pipeline in the order createPipeline made them, which is STAGE_ORDER
pipelineStages(pipelineId) ==
    [i \in 1..Len(STAGE_ORDER) |-> stages[<<pipelineId, STAGE_ORDER[i]>>]]

\* manager.ts 168-177: the pipeline row with its stages, null for an unknown id
getPipeline(pipelineId) ==
    IF pipelineId \notin PipelineIds THEN Null
    ELSE [pipeline |-> pipelines[pipelineId], stages |-> pipelineStages(pipelineId)]

\* a ready set that lists every PENDING stage, whatever its predecessor
availableOf_AnyPending(pipelineId) ==
    LET names == SelectSeq(STAGE_ORDER, LAMBDA n : stages[<<pipelineId, n>>].status = "PENDING")
    IN [i \in 1..Len(names) |-> [pipelineId |-> pipelineId, name |-> names[i]]]

\* manager.ts 200-209: the inner loop, over the stages of one pipeline
availableOf(pipelineId) ==
    LET rows == pipelineStages(pipelineId)
        names == SelectSeq(STAGE_ORDER, LAMBDA n :
                     /\ rows[indexOf(n) + 1].status = "PENDING"
                     /\ \/ indexOf(n) = 0
                        \/ rows[indexOf(n)].status \in {"COMPLETE", "SKIPPED"})
    IN [i \in 1..Len(names) |-> [pipelineId |-> pipelineId, name |-> names[i]]]

\* manager.ts 199-210: the outer loop, over the pipelines findMany returned
RECURSIVE getAvailableStages(_)
getAvailableStages(runningPipelines) ==
    IF runningPipelines = <<>> THEN <<>>
    ELSE availableOf(Head(runningPipelines)) \o getAvailableStages(Tail(runningPipelines))

\* findMany({ where: { status: 'RUNNING' } }) without orderBy: the RUNNING
\* pipelines in whatever order the database returns them
findManyRunning ==
    LET running == {p \in PipelineIds : pipelines[p].status = "RUNNING"}
    IN {f \in [1..Cardinality(running) -> running] :
           \A i, j \in DOMAIN f : f[i] = f[j] => i = j}

\* dashboard: take
DashboardTake == 20

\* dashboard: findMany RUNNING, orderBy createdAt desc, take 20; pipeline ids
\* grow with creation time
findManyRecent ==
    LET running == {p \in PipelineIds : pipelines[p].status = "RUNNING"}
        byAge == CHOOSE f \in [1..Cardinality(running) -> running] :
                     \A i, j \in DOMAIN f : i < j => f[i] > f[j]
    IN SubSeq(byAge, 1, IF Len(byAge) < DashboardTake THEN Len(byAge) ELSE DashboardTake)

\* dashboard: the two loops, for an agent with every capability
RECURSIVE availableWorkLoop(_)
availableWorkLoop(runningPipelines) ==
    IF runningPipelines = <<>> THEN <<>>
    ELSE LET found == availableOf(Head(runningPipelines))
         IN [i \in 1..Len(found) |->
                [pipelineId |-> found[i].pipelineId, stage |-> found[i].name,
                 priority |-> indexOf(found[i].name)]]
            \o availableWorkLoop(Tail(runningPipelines))

\* Array.prototype.sort((a, b) => a.priority - b.priority): stable, so entries of
\* one priority keep their order; `from` is the lowest priority still to place
RECURSIVE sortByPriority(_, _)
sortByPriority(work, from) ==
    IF from >= Len(STAGE_ORDER) THEN <<>>
    ELSE SelectSeq(work, LAMBDA e : e.priority = from) \o sortByPriority(work, from + 1)

availableWork == sortByPriority(availableWorkLoop(findManyRecent), 0)

\* a call of getAvailableStages: one read of the database
pollStages(w) ==
    /\ pc[w] = "idle"
    /\ \E runningPipelines \in findManyRunning :
           Finish(w, "getAvailableStages", <<>>, getAvailableStages(runningPipelines))
    /\ UNCHANGED <<serial, todo, pipelines, stages, attributions, calls>>

\* GET /api/dashboard: the availableWork it answers with
dashboard(w) ==
    /\ pc[w] = "idle"
    /\ Finish(w, "dashboard", <<>>, availableWork)
    /\ UNCHANGED <<serial, todo, pipelines, stages, attributions, calls>>

\* the output of the stage before `name`, none for the first stage
getPreviousStageOutput(pipelineId, name) ==
    IF indexOf(name) <= 0 THEN Null
    ELSE stages[<<pipelineId, at(indexOf(name) - 1)>>].output

\* GET /api/stages/available?stageName=...: the route hands stageName to
\* getAvailableStages, which declares no parameter (manager.ts 190) and so
\* never reads it; each stage returned is then given its predecessor's output
availableRoute(w, stageName) ==
    /\ pc[w] = "idle"
    /\ \E runningPipelines \in findManyRunning :
           LET found == getAvailableStages(runningPipelines)
           IN Finish(w, "availableRoute", <<stageName>>,
                     [i \in 1..Len(found) |->
                         [pipelineId |-> found[i].pipelineId, name |-> found[i].name,
                          previousStageOutput |->
                              getPreviousStageOutput(found[i].pipelineId, found[i].name)]])
    /\ UNCHANGED <<serial, todo, pipelines, stages, attributions, calls>>

PollStages == \E w \in Workers : pollStages(w)
Dashboard == \E w \in Workers : dashboard(w)
AvailableRoute == \E w \in Workers, n \in Targets \cup {Null} : availableRoute(w, n)

\* pipelines the ready-set scenarios hold, and how many stages of one are done
MaxPipelines == 3
MaxDone == 2

\* a stage as completeStage leaves it after a claim by W1
DoneStage == [NewStage EXCEPT !.status = "COMPLETE", !.agentId = "W1",
                              !.output = Payload("W1").output,
                              !.artifacts = Payload("W1").artifacts,
                              !.startedAt = Now, !.completedAt = Now]

\* pipelines created one after the other; each is still DRAFT (done[p] = -1) or
\* was started and has had its first done[p] stages claimed and completed in turn
InitReady ==
    /\ serial = FALSE /\ todo = {} /\ attributions = {} /\ calls = 0
    /\ InitWorkers({"W1"})
    /\ \E done \in [1..MaxPipelines -> -1..MaxDone] :
           /\ pipelines = [p \in 1..MaxPipelines |->
                  [topic |-> "Why cats purr",
                   status |-> IF done[p] = -1 THEN "DRAFT" ELSE "RUNNING",
                   currentStage |-> IF done[p] = -1 THEN "RESEARCH" ELSE at(done[p])]]
           /\ stages = [sid \in (1..MaxPipelines) \X StageNames |->
                  IF indexOf(sid[2]) < done[sid[1]] THEN DoneStage ELSE NewStage]

NextReady == PollStages \/ Dashboard \/ AvailableRoute

SpecReady == InitReady /\ [][NextReady]_vars

\* ---------------------------------------------------------------- workers
\* the stage a worker has claimed and not yet completed or failed
Holds(w) == result[w].outcome = "ok" /\ result[w].op \in {"claimStage", "startStage"}

\* a worker without a stage polls getAvailableStages and claims one of the
\* stages returned; the claim's reads and write follow as separate steps
workerClaim(w) ==
    /\ pc[w] = "idle" /\ ~Holds(w)
    /\ \E runningPipelines \in findManyRunning :
           LET ready == getAvailableStages(runningPipelines)
           IN \E i \in 1..Len(ready) :
                  Goto(w, "claim_pipeline", [op |-> "claimStage",
                                             pipelineId |-> ready[i].pipelineId,
                                             stageName |-> ready[i].name])
    /\ UNCHANGED <<serial, todo, pipelines, stages, attributions, calls>>

\* the worker reports that it has begun the stage it claimed
workerStart(w) ==
    /\ pc[w] = "idle" /\ Holds(w) /\ result[w].op = "claimStage"
    /\ startStageUpdate(w, result[w].target)
    /\ UNCHANGED <<serial, todo, pipelines, attributions, calls>>

\* the worker hands in the output of the stage it holds
workerComplete(w) ==
    /\ pc[w] = "idle" /\ Holds(w)
    /\ completeStageUpdate(w, result[w].target, Payload(w), "completeStage")
    /\ UNCHANGED <<serial, todo, pipelines, attributions, calls>>

\* the worker gives up the stage it holds
workerFail(w) ==
    /\ pc[w] = "idle" /\ Holds(w)
    /\ \E error \in Errors : failStageUpdate(w, result[w].target, error)
    /\ UNCHANGED <<serial, todo, pipelines, attributions, calls>>

\* every step a worker of the protocol can take
workerStep(w) ==
    /\ w \in Workers
    /\ \/ workerClaim(w) \/ workerStart(w) \/ workerComplete(w) \/ workerFail(w)
       \/ claimReadPipeline(w) \/ claimReadStage(w) \/ claimReadPrev(w) \/ claimWrite(w)
       \/ completePipelineUpdate(w) \/ failPipelineUpdate(w)

WorkerClaim == \E w \in Workers : workerClaim(w)
WorkerStart == \E w \in Workers : workerStart(w)
WorkerComplete == \E w \in Workers : workerComplete(w)
WorkerFail == \E w \in Workers : workerFail(w)

\* stages still open when two workers are at work on the pipeline
MaxOpen == 3

\* one pipeline, created and started, whose first `done` stages were claimed and
\* completed in turn; one worker looks for work, or two do for the last stages
InitLive ==
    /\ serial = FALSE /\ todo = {} /\ attributions = {} /\ calls = 0
    /\ \E ws \in {{"W1"}, {"W1", "W2"}} : \E done \in 0..(Len(STAGE_ORDER) - 1) :
           /\ ws = {"W1", "W2"} => Len(STAGE_ORDER) - done <= MaxOpen
           /\ InitWorkers(ws)
           /\ pipelines = <<[topic |-> "Why cats purr", status |-> "RUNNING",
                             currentStage |-> at(done)]>>
           /\ stages = [sid \in {1} \X StageNames |->
                            IF indexOf(sid[2]) < done THEN DoneStage ELSE NewStage]

NextLive ==
    \/ WorkerClaim
    \/ WorkerStart
    \/ WorkerComplete
    \/ WorkerFail
    \/ ClaimReadPipeline
    \/ ClaimReadStage
    \/ ClaimReadPrev
    \/ ClaimWrite
    \/ CompletePipelineUpdate
    \/ FailPipelineUpdate

\* a worker that can take a step eventually takes one: an awaited database
\* call returns, and a worker neither stops polling nor abandons its stage
SpecLive ==
    InitLive /\ [][NextLive]_vars /\ \A w \in {"W1", "W2"} : WF_vars(workerStep(w))

\* ------------------------------------------------------- several pipelines
\* stage names the claims of these runs are addressed to
ClaimTargets == {"RESEARCH", "SCRIPT"}

\* a pipeline id, and a stage id, that no row has
UnknownPipeline == Len(pipelines) + 1
UnknownStage == <<UnknownPipeline, "RESEARCH">>

\* a stage as a worker that went away left it: claimed, perhaps started
HeldStage(status) == [NewStage EXCEPT !.status = status, !.agentId = "W0",
                                      !.startedAt = Now]

\* two pipelines and a topic still to submit.  Pipeline 1 is RUNNING: all its
\* stages are PENDING, or RESEARCH is done and SCRIPT was claimed (and perhaps
\* started) by a worker W0 that takes no further step.  Pipeline 2 is DRAFT or
\* freshly started.
InitMulti ==
    /\ serial = FALSE /\ todo = {"Why cats purr"} /\ attributions = {} /\ calls = 0
    /\ InitWorkers({"W1", "W2"})
    /\ \E held \in {"PENDING", "CLAIMED", "RUNNING"}, second \in {"DRAFT", "RUNNING"} :
           /\ pipelines = <<[topic |-> "Dogs", status |-> "RUNNING",
                             currentStage |-> IF held = "PENDING" THEN "RESEARCH" ELSE "SCRIPT"],
                            [topic |-> "Birds", status |-> second, currentStage |-> "RESEARCH"]>>
           /\ stages = [sid \in {1, 2} \X StageNames |->
                  IF sid[1] = 1 /\ held # "PENDING" /\ sid[2] = "RESEARCH" THEN DoneStage
                  ELSE IF sid[1] = 1 /\ held # "PENDING" /\ sid[2] = "SCRIPT" THEN HeldStage(held)
                  ELSE NewStage]

CreateRoute == \E w \in Workers, topic \in todo \cup {"", Null} : createRoute(w, topic)
ClaimAnyStage ==
    \E w \in Workers, p \in PipelineIds \cup {UnknownPipeline}, n \in ClaimTargets :
        claimStage(w, p, n)
ClaimRoute ==
    \E w \in Workers, sid \in {s \in StageIds : s[2] = "RESEARCH"} \cup {UnknownStage} :
        \E agentId \in {w, Null} : claimRoute(w, sid, agentId)

\* pipelines are created and stages claimed; nobody starts, completes or fails
NextMulti ==
    \/ CreatePipeline
    \/ CreateRoute
    \/ ClaimAnyStage
    \/ ClaimRoute
    \/ ClaimReadPipeline
    \/ ClaimReadStage
    \/ ClaimReadPrev
    \/ ClaimWrite

SpecMulti == InitMulti /\ [][NextMulti]_vars

\* two RUNNING pipelines whose first done[p] stages are done; W1 has just called
\* claimStage on the ready stage of pipeline 1 and W2 on that of pipeline 2
InitRace ==
    /\ serial = FALSE /\ todo = {} /\ attributions = {} /\ calls = 0
    /\ \E done \in [{1, 2} -> 0..MaxDone] :
           /\ pipelines = [p \in {1, 2} |->
                  [topic |-> "Why cats purr", status |-> "RUNNING",
                   currentStage |-> at(done[p])]]
           /\ stages = [sid \in {1, 2} \X StageNames |->
                  IF indexOf(sid[2]) < done[sid[1]] THEN DoneStage ELSE NewStage]
           /\ pc = [w \in {"W1", "W2"} |-> "claim_pipeline"]
           /\ arg = [w \in {"W1", "W2"} |->
                  [op |-> "claimStage", pipelineId |-> IF w = "W1" THEN 1 ELSE 2,
                   stageName |-> at(done[IF w = "W1" THEN 1 ELSE 2])]]
           /\ result = [w \in {"W1", "W2"} |-> Idle]

\* the steps of the two calls, in any order
NextRace == ClaimReadPipeline \/ ClaimReadStage \/ ClaimReadPrev \/ ClaimWrite

SpecRace == InitRace /\ [][NextRace]_vars

\* two RUNNING pipelines whose first done[p] stages are done, and one worker
\* that issues claim, start, complete and fail calls on stages of either
InitFrame ==
    /\ serial = FALSE /\ todo = {} /\ attributions = {} /\ calls = 0
    /\ InitWorkers({"W1"})
    /\ \E done \in [{1, 2} -> 0..MaxDone] :
           /\ pipelines = [p \in {1, 2} |->
                  [topic |-> IF p = 1 THEN "Dogs" ELSE "Birds", status |-> "RUNNING",
                   currentStage |-> at(done[p])]]
           /\ stages = [sid \in {1, 2} \X StageNames |->
                  IF indexOf(sid[2]) < done[sid[1]] THEN DoneStage ELSE NewStage]

\* calls the worker issues in a run over two pipelines
MaxFrameCalls == 3

NextFrame ==
    \/ calls < MaxFrameCalls /\ ClaimStage
    \/ ClaimReadPipeline
    \/ ClaimReadStage
    \/ ClaimReadPrev
    \/ ClaimWrite
    \/ calls < MaxFrameCalls /\ StartStage
    \/ calls < MaxFrameCalls /\ CompleteStage
    \/ CompletePipelineUpdate
    \/ calls < MaxFrameCalls /\ FailStage
    \/ FailPipelineUpdate

SpecFrame == InitFrame /\ [][NextFrame]_vars

\* ---------------------------------------- GET /api/pipelines/[id]/progress
\* part_009 50-59: the counts over the stages of the pipeline and the
\* percentage, Math.round of completed / total * 100
progress(pipelineId) ==
    LET rows == pipelineStages(pipelineId)
        count(statuses) == Len(SelectSeq(rows, LAMBDA r : r.status \in statuses))
        totalStages == Len(rows)
        completedStages == count({"COMPLETE"})
    IN [percent |-> IF totalStages > 0
                    THEN (200 * completedStages + totalStages) \div (2 * totalStages)
                    ELSE 0,
        completed |-> completedStages,
        inProgress |-> count({"IN_PROGRESS", "CLAIMED"}),
        pending |-> count({"PENDING"}),
        failed |-> count({"FAILED"}),
        total |-> totalStages]

\* part_009 19-48, 99-107: 404 for an unknown id, else the progress block
progressRoute(w, pipelineId) ==
    /\ pc[w] = "idle"
    /\ pc' = pc /\ arg' = arg
    /\ result' = [result EXCEPT ![w] =
           IF pipelineId \in PipelineIds
           THEN [op |-> "progressRoute", target |-> <<pipelineId>>, outcome |-> "ok",
                 progress |-> progress(pipelineId)]
           ELSE [op |-> "progressRoute", target |-> <<pipelineId>>,
                 outcome |-> "Pipeline not found"]]
    /\ UNCHANGED <<serial, todo, pipelines, stages, attributions, calls>>

\* a worker that holds no stage asks for the progress of a pipeline
ProgressRoute ==
    \E w \in Workers, p \in PipelineIds \cup {Len(pipelines) + 1} :
        ~Holds(w) /\ progressRoute(w, p)

\* workers follow the protocol on one pipeline and look at its progress
NextProgress == NextLive \/ ProgressRoute

SpecProgress == InitLive /\ [][NextProgress]_vars

\* ------------------------------------------------------ token distribution
\* a weight table whose last stage weighs as much as the first
STAGE_TOKEN_WEIGHTS_Heavy ==
    [RESEARCH |-> 10, SCRIPT |-> 25, VOICE |-> 20, MUSIC |-> 10,
     VISUAL |-> 15, EDITOR |-> 15, PUBLISH |-> 10]

\* src/src/lib/token/config.ts: percentage of a pipeline's tokens per stage
STAGE_TOKEN_WEIGHTS ==
    [RESEARCH |-> 10, SCRIPT |-> 25, VOICE |-> 20, MUSIC |-> 10,
     VISUAL |-> 15, EDITOR |-> 15, PUBLISH |-> 5]

\* largest totalTokens tried
MaxTotal == 20
\* agent addresses the attributions name
Addresses == {"0xA1", "0xA2"}

\* the attribution lists tried: any subset of the stages, in stage order, each
\* stage credited to one address
AttributionLists ==
    {LET names == SelectSeq(STAGE_ORDER, LAMBDA n : f[n] # Null)
     IN [i \in 1..Len(names) |-> [stageName |-> names[i], agentAddress |-> f[names[i]]]]
         : f \in [StageNames -> Addresses \cup {Null}]}

\* the for loop of calculateTokenDistribution; a Map is a function on its keys
RECURSIVE distributeLoop(_, _, _)
distributeLoop(totalTokens, attributionList, distribution) ==
    IF attributionList = <<>> THEN distribution
    ELSE LET agentAddress == Head(attributionList).agentAddress
             weight == STAGE_TOKEN_WEIGHTS[Head(attributionList).stageName]
             amount == (totalTokens * weight) \div 100
             existing == IF agentAddress \in DOMAIN distribution
                         THEN distribution[agentAddress] ELSE 0
         IN distributeLoop(totalTokens, Tail(attributionList),
                [x \in DOMAIN distribution \cup {agentAddress} |->
                    IF x = agentAddress THEN existing + amount ELSE distribution[x]])

\* a distribution that keeps, per agent, the amount of its last stage only
calculateTokenDistribution_LastStageOnly(totalTokens, attributionList) ==
    [x \in {attributionList[i].agentAddress : i \in 1..Len(attributionList)} |->
        LET last == CHOOSE i \in 1..Len(attributionList) :
                        /\ attributionList[i].agentAddress = x
                        /\ \A j \in (i + 1)..Len(attributionList) :
                               attributionList[j].agentAddress # x
        IN (totalTokens * STAGE_TOKEN_WEIGHTS[attributionList[last].stageName]) \div 100]

calculateTokenDistribution(totalTokens, attributionList) ==
    distributeLoop(totalTokens, attributionList, [x \in {} |-> 0])

\* a call of calculateTokenDistribution is waiting with its arguments
InitTok ==
    /\ InitDb /\ serial = FALSE /\ todo = {}
    /\ \E totalTokens \in 0..MaxTotal, list \in AttributionLists :
           /\ pc = [w \in {"W1"} |-> "distribute"]
           /\ arg = [w \in {"W1"} |-> [op |-> "calculateTokenDistribution",
                                        totalTokens |-> totalTokens,
                                        attributions |-> list]]
           /\ result = [w \in {"W1"} |-> Idle]

\* the call runs; its result is kept with the arguments it was given
distribute(w) ==
    /\ pc[w] = "distribute"
    /\ Finish(w, "calculateTokenDistribution",
              [totalTokens |-> arg[w].totalTokens, attributions |-> arg[w].attributions],
              calculateTokenDistribution(arg[w].totalTokens, arg[w].attributions))
    /\ UNCHANGED <<serial, todo, pipelines, stages, attributions, calls>>

Distribute == \E w \in Workers : distribute(w)

NextTok == Distribute

SpecTok == InitTok /\ [][NextTok]_vars

\* ------------------------------------------------------------------- claims
Ok(w, op, target) ==
    result[w].op = op /\ result[w].target = target /\ result[w].outcome = "ok"

Rejected(w, op, target) ==
    result[w].op = op /\ result[w].target = target /\ result[w].outcome # "ok"

\* the stage before `name` in the fixed order has let `name` become claimable
PredecessorDone(pipelineId, name) ==
    \/ indexOf(name) = 0
    \/ stages[<<pipelineId, at(indexOf(name) - 1)>>].status \in {"COMPLETE", "SKIPPED"}

TerminalStage == {"COMPLETE", "FAILED", "SKIPPED"}

\* C1: of two claimStage calls by different workers on the same stage at most one
\* returns the stage CLAIMED; never do both succeed.
C1_OneClaimWins ==
    \A w1, w2 \in Workers : \A sid \in StageIds :
        (w1 # w2 /\ Ok(w1, "claimStage", sid)) => ~Ok(w2, "claimStage", sid)

\* C2: at the step that writes CLAIMED to a stage, the preceding stage in the
\* fixed order (if any) is COMPLETE or SKIPPED.
C2_PredecessorDoneAtClaim ==
    [][\A w \in Workers :
          (pc[w] = "claim_write" /\ pc'[w] = "idle")
              => PredecessorDone(arg[w].pipelineId, arg[w].stageName)]_vars

\* C3: every change of a stage's status is an edge of the stage state machine.
StageEdges == {<<"PENDING", "CLAIMED">>, <<"CLAIMED", "RUNNING">>,
               <<"CLAIMED", "COMPLETE">>, <<"RUNNING", "COMPLETE">>,
               <<"CLAIMED", "FAILED">>, <<"RUNNING", "FAILED">>}

C3_StatusChangesAreEdges ==
    [][\A sid \in StageIds :
          stages'[sid].status # stages[sid].status
              => <<stages[sid].status, stages'[sid].status>> \in StageEdges]_vars

\* C4: a stage that is COMPLETE, FAILED or SKIPPED never changes again.
C4_TerminalStageImmutable ==
    [][\A sid \in StageIds :
          stages[sid].status \in TerminalStage => stages'[sid] = stages[sid]]_vars

\* C5: once a pipeline is COMPLETE or FAILED, none of its stages changes status.
C5_TerminalPipelineFreezesStages ==
    [][\A sid \in StageIds :
          pipelines[sid[1]].status \in {"COMPLETE", "FAILED"}
              => stages'[sid].status = stages[sid].status]_vars

\* C6: currentStage is always one of the seven stage names and its position in
\* the fixed order never decreases.
C6_CurrentStageMonotone ==
    [][\A p \in PipelineIds :
          /\ pipelines'[p].currentStage \in StageNames
          /\ indexOf(pipelines'[p].currentStage) >= indexOf(pipelines[p].currentStage)]_vars

\* C7: a COMPLETE pipeline has exactly seven attributions, one per stage name.
C7_CompleteHasSevenAttributions ==
    \A p \in PipelineIds :
        pipelines[p].status = "COMPLETE" =>
            /\ Cardinality({a \in attributions : a.pipelineId = p}) = Len(STAGE_ORDER)
            /\ \A n \in StageNames :
                   \E a \in attributions : a.pipelineId = p /\ a.stageName = n

\* C8: completeStage's two writes are one atomic unit: once its stage update
\* is done, the next step taken by anyone is its own pipeline update.
C8_CompleteStageAtomic ==
    [][\A w \in Workers : pc[w] = "complete_pipeline" => pc'[w] # pc[w]]_vars

\* C9: a claimStage call issued with no other call in flight succeeds exactly
\* when the pipeline is RUNNING, the stage is PENDING and its predecessor (if
\* any) is COMPLETE or SKIPPED; on success the stage becomes CLAIMED by the
\* caller and nothing else changes, and a rejected call changes nothing.
ClaimLabels == {"claim_pipeline", "claim_stage", "claim_prev", "claim_write"}

Claimable(pipelineId, name) ==
    /\ pipelines[pipelineId].status = "RUNNING"
    /\ stages[<<pipelineId, name>>].status = "PENDING"
    /\ PredecessorDone(pipelineId, name)

C9_ClaimPrecondition ==
    [][\A w \in Workers :
          (pc[w] \in ClaimLabels /\ pc'[w] # pc[w]) =>
              LET p == arg[w].pipelineId
                  n == arg[w].stageName
              IN /\ pipelines' = pipelines
                 /\ pc'[w] # "idle" => stages' = stages
                 /\ (pc'[w] = "idle" /\ Claimable(p, n)) =>
                        /\ result'[w] = [op |-> "claimStage", target |-> <<p, n>>, outcome |-> "ok"]
                        /\ stages' = [stages EXCEPT ![<<p, n>>] =
                                          [@ EXCEPT !.status = "CLAIMED", !.agentId = w,
                                                    !.startedAt = Now]]
                 /\ (pc'[w] = "idle" /\ ~Claimable(p, n)) =>
                        /\ result'[w].op = "claimStage"
                        /\ result'[w].target = <<p, n>>
                        /\ result'[w].outcome # "ok"
                        /\ stages' = stages]_vars

\* a claim of SCRIPT was rejected for its predecessor, and a later claim of
\* SCRIPT, made once RESEARCH was COMPLETE, succeeded
C9_Witness ==
    \E w1, w2 \in Workers :
        /\ result[w1] = [op |-> "claimStage", target |-> <<1, "SCRIPT">>,
                         outcome |-> "Previous stage not complete"]
        /\ Ok(w2, "claimStage", <<1, "SCRIPT">>)
        /\ stages[<<1, "RESEARCH">>].status = "COMPLETE"
        /\ stages[<<1, "SCRIPT">>].status = "CLAIMED"
        /\ stages[<<1, "SCRIPT">>].agentId = w2

\* C10: a stage is completed (status COMPLETE, output, artifacts and completedAt
\* stored) only from CLAIMED or RUNNING; in particular never from PENDING.
C10_CompleteOnlyFromClaimedOrRunning ==
    [][\A sid \in StageIds :
          (stages'[sid] # stages[sid] /\ stages'[sid].status = "COMPLETE")
              => stages[sid].status \in {"CLAIMED", "RUNNING"}]_vars

\* C11: a stage becomes RUNNING only from CLAIMED; a startStage call on a stage
\* in any other status leaves the stage as it was.
C11_StartOnlyFromClaimed ==
    [][\A sid \in StageIds :
          (stages'[sid].status = "RUNNING" /\ stages[sid].status # "RUNNING")
              => stages[sid].status = "CLAIMED"]_vars

\* C12: a pipeline becomes RUNNING only from DRAFT; a FAILED or COMPLETE
\* pipeline is never returned to RUNNING.
C12_StartOnlyFromDraft ==
    [][\A p \in PipelineIds :
          (pipelines'[p].status = "RUNNING" /\ pipelines[p].status # "RUNNING")
              => pipelines[p].status = "DRAFT"]_vars

\* C13: a completeStage call on a CLAIMED or RUNNING stage (PUBLISH included)
\* of a FAILED pipeline leaves the stage COMPLETE and the pipeline FAILED.
C13_FailedPipelineStaysFailed ==
    [][\A w \in Workers :
          (/\ pc[w] = "complete_pipeline" /\ pc'[w] = "idle"
           /\ arg[w].from \in {"CLAIMED", "RUNNING"}
           /\ pipelines[arg[w].stageId[1]].status = "FAILED")
              => /\ pipelines'[arg[w].stageId[1]].status = "FAILED"
                 /\ stages'[arg[w].stageId].status = "COMPLETE"]_vars

\* C14: once a failStage call on a CLAIMED or RUNNING stage has returned, every
\* claimStage call that finishes afterwards on a later stage of that pipeline
\* is rejected because the pipeline is not RUNNING.
C14_NoClaimAfterFail ==
    [][\A w, v \in Workers :
          (/\ pc[w] \in ClaimLabels /\ pc'[w] = "idle"
           /\ Ok(v, "failStage", result[v].target)
           /\ result[v].from \in {"CLAIMED", "RUNNING"}
           /\ result[v].target[1] = arg[w].pipelineId
           /\ indexOf(arg[w].stageName) > indexOf(result[v].target[2]))
              => result'[w].outcome = "Pipeline not in running state"]_vars

\* C15: a pipeline's status becomes COMPLETE only in the pipeline update of a
\* completeStage call on its stage PUBLISH.
C15_CompleteOnlyByPublish ==
    [][\A p \in PipelineIds :
          (pipelines'[p].status = "COMPLETE" /\ pipelines[p].status # "COMPLETE")
              => \E w \in Workers :
                     /\ pc[w] = "complete_pipeline" /\ pc'[w] = "idle"
                     /\ arg[w].stageId = <<p, "PUBLISH">>]_vars

\* a completion of PUBLISH has returned and the pipeline is COMPLETE, while a
\* completion of an earlier stage has returned too
C15_Witness ==
    \E w, v \in Workers :
        /\ result[w].op \in {"completeStage", "completeRoute"}
        /\ result[w].target = <<1, "PUBLISH">> /\ result[w].outcome = "ok"
        /\ result[v].op \in {"completeStage", "completeRoute"}
        /\ result[v].target = <<1, "RESEARCH">> /\ result[v].outcome = "ok"
        /\ pipelines[1].status = "COMPLETE"

\* a finished call of calculateTokenDistribution
Distributed(w) == result[w].op = "calculateTokenDistribution"

\* sum of f over the set S
RECURSIVE SumOver(_, _)
SumOver(f, S) ==
    IF S = {} THEN 0
    ELSE LET x == CHOOSE y \in S : TRUE IN f[x] + SumOver(f, S \ {x})

\* positions of the attributions that credit agent x
CreditsOf(list, x) == {i \in 1..Len(list) : list[i].agentAddress = x}

WeightAt(list) == [i \in 1..Len(list) |-> STAGE_TOKEN_WEIGHTS[list[i].stageName]]

FullAttribution(list) ==
    /\ Len(list) = Len(STAGE_ORDER)
    /\ \A n \in StageNames : \E i \in 1..Len(list) : list[i].stageName = n

\* C16: for every total and every full attribution set (one attribution per
\* stage, agents assigned arbitrarily) the amounts returned sum to the total.
C16_DistributionConserved ==
    \A w \in Workers :
        (Distributed(w) /\ FullAttribution(result[w].target.attributions))
            => SumOver(result[w].outcome, DOMAIN result[w].outcome)
                   = result[w].target.totalTokens

\* C17 as stated: the result has one entry per distinct agent (none for the
\* empty list), and an agent credited with several stages gets
\* floor(totalTokens * W / 100), W being the sum of the weights of its stages.
C17_FloorOfWeightSum ==
    \A w \in Workers :
        Distributed(w) =>
            LET list == result[w].target.attributions
                totalTokens == result[w].target.totalTokens
            IN /\ DOMAIN result[w].outcome =
                      {list[i].agentAddress : i \in 1..Len(list)}
               /\ \A x \in DOMAIN result[w].outcome :
                      Cardinality(CreditsOf(list, x)) > 1 =>
                          result[w].outcome[x] =
                              (totalTokens * SumOver(WeightAt(list), CreditsOf(list, x)))
                                  \div 100

\* C17 amended: the result has one entry per distinct agent (none for the
\* empty list), and an agent credited with several stages gets the sum, over
\* its stages, of floor(totalTokens * weight / 100).
C17_SumOfFloors ==
    \A w \in Workers :
        Distributed(w) =>
            LET list == result[w].target.attributions
                totalTokens == result[w].target.totalTokens
                share == [i \in 1..Len(list) |-> (totalTokens * WeightAt(list)[i]) \div 100]
            IN /\ DOMAIN result[w].outcome =
                      {list[i].agentAddress : i \in 1..Len(list)}
               /\ \A x \in DOMAIN result[w].outcome :
                      Cardinality(CreditsOf(list, x)) > 1 =>
                          result[w].outcome[x] = SumOver(share, CreditsOf(list, x))

\* RESEARCH and SCRIPT credited to one agent, 6 tokens: 0 + 1 is returned,
\* where floor(6 * 35 / 100) is 2
C17_Witness ==
    \E w \in Workers :
        /\ Distributed(w)
        /\ result[w].target.totalTokens = 6
        /\ result[w].target.attributions =
               <<[stageName |-> "RESEARCH", agentAddress |-> "0xA1"],
                 [stageName |-> "SCRIPT", agentAddress |-> "0xA1"]>>
        /\ result[w].outcome["0xA1"] = 1

\* C19: getAvailableStages returns no stage of a pipeline that is not RUNNING
\* and, for each RUNNING pipeline, at most one stage: the earliest PENDING stage
\* whose predecessor is COMPLETE or SKIPPED (or which is the first stage).
C19_OneReadyStagePerPipeline ==
    \A runningPipelines \in findManyRunning :
        LET ready == getAvailableStages(runningPipelines)
        IN /\ \A i \in 1..Len(ready) : pipelines[ready[i].pipelineId].status = "RUNNING"
           /\ \A p \in PipelineIds :
                  LET mine == {i \in 1..Len(ready) : ready[i].pipelineId = p}
                      open == {n \in StageNames :
                                  /\ stages[<<p, n>>].status = "PENDING"
                                  /\ PredecessorDone(p, n)}
                  IN pipelines[p].status = "RUNNING" =>
                         /\ Cardinality(mine) <= 1
                         /\ open = {} => mine = {}
                         /\ \A i \in mine : \A n \in open :
                                indexOf(ready[i].name) <= indexOf(n)

\* the stage name of an entry of either listing
EntryStage(e) == IF "name" \in DOMAIN e THEN e.name ELSE e.stage

\* C20: the ready set (getAvailableStages, and the dashboard's availableWork)
\* is sorted by stage order ascending and, within one stage name, by pipeline
\* creation time ascending.
C20_ReadySetSorted ==
    \A w \in Workers :
        result[w].op \in {"getAvailableStages", "dashboard"} =>
            \A i, j \in 1..Len(result[w].outcome) :
                i < j =>
                    LET a == result[w].outcome[i]
                        b == result[w].outcome[j]
                    IN \/ indexOf(EntryStage(a)) < indexOf(EntryStage(b))
                       \/ /\ EntryStage(a) = EntryStage(b)
                          /\ a.pipelineId < b.pipelineId

\* C18: with workers that keep claiming ready stages and keep completing or
\* failing the stages they hold, a started pipeline eventually is COMPLETE or
\* FAILED.
C18_StartedPipelineTerminates ==
    (pipelines[1].status = "RUNNING") ~> (pipelines[1].status \in {"COMPLETE", "FAILED"})

\* two workers have shared the last stages and the pipeline is COMPLETE
C18_Witness ==
    /\ Workers = {"W1", "W2"}
    /\ pipelines[1].status = "COMPLETE"
    /\ stages[<<1, "PUBLISH">>].status = "COMPLETE"
    /\ stages[<<1, "EDITOR">>].agentId # stages[<<1, "PUBLISH">>].agentId
    /\ \A w \in Workers : pc[w] = "idle"

\* C21: with a stage name filter the available-stages route answers with
\* exactly the entries of the unfiltered ready set that have that stage name.
C21_FilterByStageName ==
    \A w \in Workers :
        (result[w].op = "availableRoute" /\ result[w].target[1] # Null) =>
            LET listed == {<<result[w].outcome[i].pipelineId, result[w].outcome[i].name>> :
                              i \in 1..Len(result[w].outcome)}
                all == UNION {{<<availableOf(p)[i].pipelineId, availableOf(p)[i].name>> :
                                  i \in 1..Len(availableOf(p))} :
                              p \in {q \in PipelineIds : pipelines[q].status = "RUNNING"}}
            IN listed = {e \in all : e[2] = result[w].target[1]}

\* C22: a stage that is CLAIMED or RUNNING has an owner, a non-null agentId.
C22_ClaimedStageHasOwner ==
    \A sid \in StageIds :
        stages[sid].status \in {"CLAIMED", "RUNNING"} => stages[sid].agentId # Null

\* C23: claimStage on a pipeline id that no pipeline has fails with a not-found
\* error, not with the error of a pipeline that is not RUNNING.
C23_UnknownIsNotFound ==
    \A w \in Workers :
        (result[w].op = "claimStage" /\ result[w].target[1] \notin PipelineIds)
            => result[w].outcome \notin {"ok", "Pipeline not in running state"}

\* C24: two claimStage calls in flight together on the ready stages of two
\* different RUNNING pipelines are never rejected, and each leaves its stage
\* CLAIMED by its own caller, whatever the order of their steps.
C24_DisjointClaimsSucceed ==
    \A w \in Workers :
        /\ result[w].outcome \in {"none", "ok"}
        /\ pc[w] = "idle" =>
               /\ result[w].op = "claimStage"
               /\ result[w].target[1] = (IF w = "W1" THEN 1 ELSE 2)
               /\ stages[result[w].target].status = "CLAIMED"
               /\ stages[result[w].target].agentId = w
        /\ \A sid \in StageIds :
               stages[sid].status = "CLAIMED" =>
                   /\ stages[sid].agentId = (IF sid[1] = 1 THEN "W1" ELSE "W2")
                   /\ Ok(stages[sid].agentId, "claimStage", sid)

\* both calls have returned
C24_Witness ==
    /\ Ok("W1", "claimStage", <<1, "SCRIPT">>)
    /\ Ok("W2", "claimStage", <<2, "RESEARCH">>)
    /\ stages[<<1, "SCRIPT">>].agentId = "W1"
    /\ stages[<<2, "RESEARCH">>].agentId = "W2"

C27_CreateAddsOnePipeline ==
    [][(pipelines' # pipelines \/ DOMAIN stages' # DOMAIN stages) =>
          LET id == Len(pipelines) + 1
          IN /\ Len(pipelines') = id
             /\ \A p \in PipelineIds : pipelines'[p] = pipelines[p]
             /\ pipelines'[id].status = "DRAFT"
             /\ pipelines'[id].currentStage = "RESEARCH"
             /\ DOMAIN stages' = DOMAIN stages \cup {<<id, n>> : n \in StageNames}
             /\ \A sid \in StageIds : stages'[sid] = stages[sid]
             /\ \A n \in StageNames :
                    /\ stages'[<<id, n>>].status = "PENDING"
                    /\ stages'[<<id, n>>].agentId = Null
                    /\ stages'[<<id, n>>].output = Null
                    /\ stages'[<<id, n>>].error = Null
             /\ \E w \in Workers : result'[w] = [op |-> "createPipeline", target |-> <<id>>,
                                                  outcome |-> "ok"]]_vars

\* a third pipeline was created beside two whose stages are being claimed
C27_Witness ==
    /\ Len(pipelines) = 3
    /\ pipelines[3].status = "DRAFT"
    /\ stages[<<3, "PUBLISH">>].status = "PENDING"
    /\ stages[<<2, "RESEARCH">>].status = "CLAIMED"
    /\ \E w \in Workers : Ok(w, "createPipeline", <<3>>)

C29_SevenStagesPerPipeline ==
    \A p \in PipelineIds :
        /\ Cardinality({sid \in StageIds : sid[1] = p}) = Len(STAGE_ORDER)
        /\ \A n \in StageNames : <<p, n>> \in StageIds

\* stages of the pipeline have been completed, failed and started
C29_Witness ==
    /\ Len(pipelines) = 1
    /\ stages[<<1, "RESEARCH">>].status = "COMPLETE"
    /\ stages[<<1, "SCRIPT">>].status = "FAILED"
    /\ stages[<<1, "PUBLISH">>].status = "RUNNING"

\* C26: the output and artifacts that getPipeline returns for a stage change
\* only in the stage update of a completeStage call on that very stage, which
\* stores the output and the artifacts list it was given and nothing else;
\* claims, starts, completions and failures of other stages leave them alone.
C26_OutputStoredVerbatim ==
    [][\A p \in PipelineIds :
          LET before == getPipeline(p).stages
              after == getPipeline(p)'.stages
              completing == {w \in Workers : /\ pc'[w] = "complete_pipeline"
                                              /\ pc[w] # "complete_pipeline"
                                              /\ arg'[w].stageId[1] = p}
          IN /\ \A w \in completing :
                    LET row == after[indexOf(arg'[w].stageId[2]) + 1]
                    IN /\ row.status = "COMPLETE"
                       /\ row.output = Payload(w).output
                       /\ row.artifacts = Payload(w).artifacts
             /\ \A i \in 1..Len(STAGE_ORDER) :
                    (\A w \in completing : arg'[w].stageId[2] # STAGE_ORDER[i])
                        => /\ after[i].output = before[i].output
                           /\ after[i].artifacts = before[i].artifacts]_vars

\* RESEARCH was completed by W1 and then SCRIPT by W2, and getPipeline shows
\* each output as it was posted
C26_Witness ==
    /\ Len(pipelines) = 1
    /\ LET rows == getPipeline(1).stages
       IN /\ rows[1].status = "COMPLETE" /\ rows[1].output = Payload("W1").output
          /\ rows[1].artifacts = Payload("W1").artifacts
          /\ rows[2].status = "COMPLETE" /\ rows[2].output = Payload("W2").output
          /\ rows[2].artifacts = Payload("W2").artifacts
          /\ rows[3].output = Null
    /\ Ok("W2", "completeStage", <<1, "SCRIPT">>)

\* the stages reached from a stage by getNextStageName, at most k of them
RECURSIVE iterate(_, _)
iterate(name, k) ==
    IF name = Null \/ k = 0 THEN <<>>
    ELSE <<name>> \o iterate(getNextStageName(name), k - 1)

\* C30: getNextStageName gives each of the first six stages its successor in
\* STAGE_ORDER and null for PUBLISH; iterating it from RESEARCH visits the
\* seven stages once each, in order, and stops; a pipeline that one worker
\* takes through its stages has as currentStage the stage after the COMPLETE
\* ones, PUBLISH once they all are.
C30_NextStageIsSuccessor ==
    /\ STAGE_ORDER = <<"RESEARCH", "SCRIPT", "VOICE", "MUSIC", "VISUAL", "EDITOR", "PUBLISH">>
    /\ \A i \in 1..(Len(STAGE_ORDER) - 1) :
           getNextStageName(STAGE_ORDER[i]) = STAGE_ORDER[i + 1]
    /\ getNextStageName("PUBLISH") = Null
    /\ iterate("RESEARCH", Len(STAGE_ORDER) + 1) = STAGE_ORDER
    /\ \A p \in PipelineIds :
           LET complete == Cardinality({n \in StageNames : stages[<<p, n>>].status = "COMPLETE"})
           IN /\ pipelines[p].currentStage \in StageNames
              /\ (Workers = {"W1"} /\ pc["W1"] # "complete_pipeline") =>
                     pipelines[p].currentStage =
                         (IF complete = Len(STAGE_ORDER) THEN "PUBLISH" ELSE at(complete))

\* one worker took the pipeline from RESEARCH through every stage to the end
C30_Witness ==
    /\ Workers = {"W1"}
    /\ pipelines[1].status = "COMPLETE"
    /\ pipelines[1].currentStage = "PUBLISH"
    /\ \A n \in StageNames : stages[<<1, n>>].status = "COMPLETE"

\* C31: STAGE_TOKEN_WEIGHTS has a positive integer weight for each of the seven
\* stages (10, 25, 20, 10, 15, 15, 5 in stage order) and the weights sum to
\* 100, so that a total that is a multiple of 20, shared over one attribution
\* per stage, is handed out whole.
C31_WeightsSumTo100 ==
    /\ DOMAIN STAGE_TOKEN_WEIGHTS = StageNames
    /\ [i \in 1..Len(STAGE_ORDER) |-> STAGE_TOKEN_WEIGHTS[STAGE_ORDER[i]]]
           = <<10, 25, 20, 10, 15, 15, 5>>
    /\ \A n \in StageNames : STAGE_TOKEN_WEIGHTS[n] \in Nat \ {0}
    /\ SumOver(STAGE_TOKEN_WEIGHTS, StageNames) = 100
    /\ \A w \in Workers :
           (/\ Distributed(w) /\ FullAttribution(result[w].target.attributions)
            /\ result[w].target.totalTokens % 20 = 0)
               => SumOver(result[w].outcome, DOMAIN result[w].outcome)
                      = result[w].target.totalTokens

\* 20 tokens were shared between two agents over the seven stages
C31_Witness ==
    \E w \in Workers :
        /\ Distributed(w) /\ FullAttribution(result[w].target.attributions)
        /\ result[w].target.totalTokens = 20
        /\ DOMAIN result[w].outcome = Addresses
        /\ SumOver(result[w].outcome, Addresses) = 20

\* C32: in every reachable state at most one stage of a pipeline is CLAIMED or
\* RUNNING, every stage before it is COMPLETE or SKIPPED and every stage after
\* it is PENDING.
C32_OneActiveStage ==
    \A p \in PipelineIds : \A n \in StageNames :
        stages[<<p, n>>].status \in {"CLAIMED", "RUNNING"} =>
            \A m \in StageNames :
                /\ indexOf(m) < indexOf(n) => stages[<<p, m>>].status \in {"COMPLETE", "SKIPPED"}
                /\ indexOf(m) > indexOf(n) => stages[<<p, m>>].status = "PENDING"

\* C33: the status write of the start route never takes a pipeline that is
\* FAILED or COMPLETE back to RUNNING, whatever ran between the route's read
\* of the status and its write.
C33_StartRouteKeepsTerminal ==
    [][\A w \in Workers :
          (pc[w] = "route_start" /\ pc'[w] = "idle")
              => (pipelines[arg[w].pipelineId].status \in {"FAILED", "COMPLETE"}
                     => pipelines'[arg[w].pipelineId].status
                            = pipelines[arg[w].pipelineId].status)]_vars

\* C34: of two complete requests for the same stage that run together at most
\* one succeeds: a request never writes its output over the output that
\* another complete request has stored since the stage was CLAIMED or RUNNING.
C34_OneCompleteRequestWins ==
    [][\A w \in Workers :
          (pc[w] = "route_complete" /\ pc'[w] = "complete_pipeline")
              => ~ \E v \in Workers \ {w} :
                      /\ \/ pc[v] = "complete_pipeline" /\ arg[v].op = "completeRoute"
                            /\ arg[v].stageId = arg[w].stageId
                         \/ Ok(v, "completeRoute", arg[w].stageId)
                      /\ stages[arg[w].stageId].status = "COMPLETE"
                      /\ stages[arg[w].stageId].output = Payload(v).output
                      /\ stages'[arg[w].stageId].output = Payload(w).output]_vars

\* the pair is in the list getAvailableStages returns, whatever the order in
\* which the database hands over the RUNNING pipelines
Listed(pipelineId, name) ==
    \A f \in findManyRunning :
        \E i \in 1..Len(getAvailableStages(f)) :
            getAvailableStages(f)[i] = [pipelineId |-> pipelineId, name |-> name]

\* C35: a claimStage call that runs with no other operation in progress
\* succeeds if and only if getAvailableStages lists its (pipeline, stage) pair
\* in the state the call runs in.
C35_ReadySetIsClaimable ==
    [][\A w \in Workers :
          (/\ pc[w] \in ClaimLabels /\ pc'[w] = "idle"
           /\ \A v \in Workers \ {w} : pc[v] = "idle")
              => (result'[w].outcome = "ok" <=> Listed(arg[w].pipelineId, arg[w].stageName))]_vars

\* RESEARCH, listed, was claimed; a claim of SCRIPT, not listed, was turned down
C35_Witness ==
    \E w, v \in Workers :
        /\ Ok(w, "claimStage", <<1, "RESEARCH">>)
        /\ result[v] = [op |-> "claimStage", target |-> <<1, "SCRIPT">>,
                         outcome |-> "Previous stage not complete"]
        /\ ~ Listed(1, "SCRIPT") /\ ~ Listed(1, "RESEARCH")
        /\ ~ Listed(1, "PUBLISH")
        /\ serial

\* the stages of a pipeline that are neither COMPLETE nor SKIPPED
Open(p) == {n \in StageNames : stages[<<p, n>>].status \notin {"COMPLETE", "SKIPPED"}}

\* C36: with workers that complete only stages they have claimed, in every
\* state where a pipeline is RUNNING its currentStage is the earliest stage
\* that is not COMPLETE or SKIPPED.
C36_CurrentStageIsEarliestOpen ==
    \A p \in PipelineIds :
        pipelines[p].status = "RUNNING" =>
            /\ pipelines[p].currentStage \in Open(p)
            /\ \A n \in Open(p) : indexOf(pipelines[p].currentStage) <= indexOf(n)

\* the stage that the call a worker has in flight, or its last call, is about
CallTarget(w) ==
    IF pc[w] = "idle" THEN result[w].target
    ELSE IF pc[w] \in ClaimLabels THEN <<arg[w].pipelineId, arg[w].stageName>>
    ELSE arg[w].stageId

\* C37: every step of a claimStage, startStage, completeStage or failStage
\* call on a stage of pipeline P changes at most that stage and the status and
\* currentStage of P: the other stages of P, the other pipelines and their
\* stages, P's topic and the attributions stay as they were.
C37_OnlyTargetChanges ==
    [][\E w \in Workers :
          LET sid == CallTarget(w)'
          IN /\ sid \in StageIds
             /\ DOMAIN stages' = DOMAIN stages
             /\ \A other \in StageIds \ {sid} : stages'[other] = stages[other]
             /\ DOMAIN pipelines' = DOMAIN pipelines
             /\ \A p \in PipelineIds \ {sid[1]} : pipelines'[p] = pipelines[p]
             /\ pipelines'[sid[1]].topic = pipelines[sid[1]].topic
             /\ attributions' = attributions]_vars

\* SCRIPT of pipeline 1 failed and RESEARCH of pipeline 2 was claimed; each
\* pipeline shows its own call only
C37_Witness ==
    /\ Len(pipelines) = 2
    /\ stages[<<1, "SCRIPT">>].status = "FAILED" /\ pipelines[1].status = "FAILED"
    /\ stages[<<2, "RESEARCH">>].status = "CLAIMED" /\ pipelines[2].status = "RUNNING"
    /\ stages[<<2, "SCRIPT">>].status = "PENDING"
    /\ stages[<<1, "PUBLISH">>].status = "PENDING"
    /\ Ok("W1", "claimStage", <<2, "RESEARCH">>)

\* C38: a stage that a successful claimStage has left CLAIMED has no startedAt
\* yet (startedAt is set when startStage moves the stage to RUNNING), and
\* completedAt is set exactly when the stage is COMPLETE or FAILED.
C38_TimestampsFollowStatus ==
    \A sid \in StageIds :
        /\ stages[sid].status = "CLAIMED" => stages[sid].startedAt = <<>>
        /\ stages[sid].completedAt # <<>> <=> stages[sid].status \in {"COMPLETE", "FAILED"}

\* C39: the progress view counts every stage of the pipeline in exactly one of
\* completed, inProgress, pending and failed, so that the four counts sum to
\* total, and percent is round(100 * completed / total).
C39_ProgressCountsEveryStage ==
    \A w \in Workers :
        (result[w].op = "progressRoute" /\ result[w].outcome = "ok") =>
            LET view == result[w].progress
            IN /\ view.total = Len(STAGE_ORDER)
               /\ view.completed + view.inProgress + view.pending + view.failed = view.total
               /\ 2 * view.total * view.percent <= 200 * view.completed + view.total
               /\ 200 * view.completed + view.total < 2 * view.total * (view.percent + 1)

====
